---- MODULE Spec2Model ----
(***************************************************************************)
(* BinarySearchTree<KeyType, ValueType> of binary_search_tree.hpp as a     *)
(* state machine over an explicit heap of BinaryNode objects.  Two tree    *)
(* objects A and B live over one heap, so that copy and move between them  *)
(* and the ownership of nodes can be observed.                             *)
(*                                                                         *)
(* SpecTree is one tree object under Insert, Erase and Clear; Spec is both *)
(* objects under every public operation, on a smaller key range.           *)
(***************************************************************************)
EXTENDS Integers, Sequences, FiniteSets, TLC

\* ---------------------------------------------------------------- bounds
MaxKey      == 4       \* SpecTree: keys are 1..MaxKey
MaxNodes    == 4       \* SpecTree: number of heap addresses `new` can hand out
MaxKeyTwo   == 2       \* Spec: keys are 1..MaxKeyTwo
MaxNodesTwo == 4       \* Spec: number of heap addresses `new` can hand out
MaxKeyFail  == 2       \* SpecFail: keys are 1..MaxKeyFail
MaxNodesFail == 3      \* SpecFail: number of heap addresses `new` can hand out
MaxKeyLevel == 5       \* SpecLevel: keys are 1..MaxKeyLevel
MaxNodesLevel == 5     \* SpecLevel: number of heap addresses `new` can hand out
MaxSizeFail == 2       \* SpecFail: no allocation is made to fail once m_Size is this

Keys    == 1..MaxKey
KeysTwo == 1..MaxKeyTwo
KeysFail == 1..MaxKeyFail
KeysLevel == 1..MaxKeyLevel
Values  == {"a", "b"}
NULL    == 0           \* nullptr
DELIMETER == NULL      \* ConstNodePointer DELIMETER = nullptr
Trees   == {"A", "B"}

\* A heap cell that holds no BinaryNode, and one whose node was deleted twice.
Free       == [st |-> "free"]
DoubleFree == [st |-> "double_free"]

VARIABLES
    heap,      \* address -> BinaryNode | Free | DoubleFree
    m_Root,    \* Trees -> address or NULL
    m_Size,    \* Trees -> Nat
    live,      \* Trees -> BOOLEAN: the object is constructed and not destructed
    copied,    \* the tree that was made a copy of the other one, or "none"
    last,      \* the last public operation called, on which tree, and its branch
    pc,        \* LevelByLevel: "idle", in its "loop", or "done"
    q,         \* LevelByLevel: std::queue<ConstNodePointer> q
    out        \* LevelByLevel: what was written to the stream

vars == <<heap, m_Root, m_Size, live, copied, last, pc, q, out>>

\* The state of a LevelByLevel call.
trav == <<pc, q, out>>

\* ----------------------------------------------------------- BinaryNode
\* BinaryNode(newData, newLeft = nullptr, newRight = nullptr)
BinaryNode(newData, newLeft, newRight) ==
    [st |-> "node", data |-> newData, left |-> newLeft, right |-> newRight]

Pair(k, v) == [first |-> k, second |-> v]

FreeAddrs(h) == {a \in DOMAIN h : h[a].st # "node"}
Allocated(h) == {a \in DOMAIN h : h[a].st = "node"}

\* `new` hands out an unused address; which one is the allocator's business,
\* the lowest unused one is taken.
NewAddr(h) == CHOOSE a \in FreeAddrs(h) : \A b \in FreeAddrs(h) : a <= b

\* Mutation: the node is not deleted.
Delete_Leaks(h, p) == h

\* delete p
Delete(h, p) ==
    [h EXCEPT ![p] = IF h[p].st = "node" THEN Free ELSE DoubleFree]

\* ------------------------------------------------- private helpers
\* Max(ConstNodePointer node)
RECURSIVE MaxWalk(_, _)
MaxWalk(h, node) ==
    IF h[node].right # NULL THEN MaxWalk(h, h[node].right) ELSE node

\* Mutation: an `if` in place of the `while`, one step to the right.
MaxNode_OneStep(h, node) ==
    IF node = NULL THEN NULL
    ELSE IF h[node].right # NULL THEN h[node].right ELSE node

MaxNode(h, node) == IF node = NULL THEN NULL ELSE MaxWalk(h, node)

\* Min(ConstNodePointer node)
RECURSIVE MinWalk(_, _)
MinWalk(h, node) ==
    IF h[node].left # NULL THEN MinWalk(h, h[node].left) ELSE node

\* Mutation: the walk follows right links.
MinNode_WalksRight(h, node) == IF node = NULL THEN NULL ELSE MaxWalk(h, node)

MinNode(h, node) == IF node = NULL THEN NULL ELSE MinWalk(h, node)

\* Mutation: a greater key is looked for in the left subtree too.
RECURSIVE FindNode_LeftOnly(_, _, _)
FindNode_LeftOnly(h, key, node) ==
    IF node = NULL THEN NULL
    ELSE IF key < h[node].data.first THEN FindNode_LeftOnly(h, key, h[node].left)
    ELSE IF key > h[node].data.first THEN FindNode_LeftOnly(h, key, h[node].left)
    ELSE node

\* Find(const KeyType& key, NodePointer node)
RECURSIVE FindNode(_, _, _)
FindNode(h, key, node) ==
    IF node = NULL THEN NULL
    ELSE IF key < h[node].data.first THEN FindNode(h, key, h[node].left)
    ELSE IF key > h[node].data.first THEN FindNode(h, key, h[node].right)
    ELSE node

\* Mutation: only the left subtree is cleared before the node is deleted.
RECURSIVE ClearRun_SkipsRight(_, _)
ClearRun_SkipsRight(h, node) ==
    IF node = NULL THEN [heap |-> h, order |-> <<>>]
    ELSE LET l  == h[node].left
             cl == IF l # NULL THEN ClearRun_SkipsRight(h, l)
                   ELSE [heap |-> h, order |-> <<>>]
             h1 == IF l # NULL THEN [cl.heap EXCEPT ![node].left = NULL] ELSE h
         IN  [heap  |-> Delete(h1, node),
              order |-> cl.order \o <<node>>]

\* Clear(NodePointer& node): the heap after the call and the nodes deleted, in
\* the order of their `delete`; the caller's link `node` is nullptr afterwards
\* whenever it was not before.
RECURSIVE ClearRun(_, _)
ClearRun(h, node) ==
    IF node = NULL THEN [heap |-> h, order |-> <<>>]
    ELSE LET l  == h[node].left
             cl == IF l # NULL THEN ClearRun(h, l)
                   ELSE [heap |-> h, order |-> <<>>]
             h1 == IF l # NULL THEN [cl.heap EXCEPT ![node].left = NULL] ELSE h
             r  == h1[node].right
             cr == IF r # NULL THEN ClearRun(h1, r)
                   ELSE [heap |-> h1, order |-> <<>>]
             h2 == IF r # NULL THEN [cr.heap EXCEPT ![node].right = NULL] ELSE h1
         IN  [heap  |-> Delete(h2, node),
              order |-> cl.order \o cr.order \o <<node>>]

\* The heap after Clear(node).
ClearNode(h, node) == ClearRun(h, node).heap

\* Mutation: a pair whose key is stored overwrites the stored pair.
RECURSIVE InsertNode_Overwrite(_, _, _, _)
InsertNode_Overwrite(h, size, data, node) ==
    IF node = NULL
    THEN LET n == NewAddr(h)
         IN  [heap |-> [h EXCEPT ![n] = BinaryNode(data, NULL, NULL)],
              node |-> n,
              size |-> size + 1]
    ELSE IF data.first < h[node].data.first
    THEN LET r == InsertNode_Overwrite(h, size, data, h[node].left)
         IN  [heap |-> [r.heap EXCEPT ![node].left = r.node],
              node |-> node,
              size |-> r.size]
    ELSE IF data.first > h[node].data.first
    THEN LET r == InsertNode_Overwrite(h, size, data, h[node].right)
         IN  [heap |-> [r.heap EXCEPT ![node].right = r.node],
              node |-> node,
              size |-> r.size]
    ELSE [heap |-> [h EXCEPT ![node].data = data], node |-> node, size |-> size]

\* Insert(ConstReference data, NodePointer& node): the heap, the value of the
\* link `node` (which is also the value returned) and m_Size after the call.
RECURSIVE InsertNode(_, _, _, _)
InsertNode(h, size, data, node) ==
    IF node = NULL
    THEN LET n == NewAddr(h)
         IN  [heap |-> [h EXCEPT ![n] = BinaryNode(data, NULL, NULL)],
              node |-> n,
              size |-> size + 1]
    ELSE IF data.first < h[node].data.first
    THEN LET r == InsertNode(h, size, data, h[node].left)
         IN  [heap |-> [r.heap EXCEPT ![node].left = r.node],
              node |-> node,
              size |-> r.size]
    ELSE IF data.first > h[node].data.first
    THEN LET r == InsertNode(h, size, data, h[node].right)
         IN  [heap |-> [r.heap EXCEPT ![node].right = r.node],
              node |-> node,
              size |-> r.size]
    ELSE [heap |-> h, node |-> node, size |-> size]

\* Insert(Pair&& data, NodePointer& node): the same descent; the pair is
\* moved into the new node, which stores the same key and value.
RECURSIVE InsertNodeMove(_, _, _, _)
InsertNodeMove(h, size, data, node) ==
    IF node = NULL
    THEN LET n == NewAddr(h)
         IN  [heap |-> [h EXCEPT ![n] = BinaryNode(data, NULL, NULL)],
              node |-> n,
              size |-> size + 1]
    ELSE IF data.first < h[node].data.first
    THEN LET r == InsertNodeMove(h, size, data, h[node].left)
         IN  [heap |-> [r.heap EXCEPT ![node].left = r.node],
              node |-> node,
              size |-> r.size]
    ELSE IF data.first > h[node].data.first
    THEN LET r == InsertNodeMove(h, size, data, h[node].right)
         IN  [heap |-> [r.heap EXCEPT ![node].right = r.node],
              node |-> node,
              size |-> r.size]
    ELSE [heap |-> h, node |-> node, size |-> size]

\* Mutation: only the successor's key is taken, the value stays.
SuccessorData_KeyOnly(h, node) ==
    [first  |-> h[MinNode(h, h[node].right)].data.first,
     second |-> h[node].data.second]

\* node->data = Min(node->right)->data
SuccessorData(h, node) == h[MinNode(h, h[node].right)].data

\* Mutation: the link is set to nullptr, whatever the node has below it.
Replacement_DropsSubtree(h, node) == NULL

\* Mutation: the node is always replaced by its left child.
Replacement_LeftOnly(h, node) == h[node].left

\* if (node->left) node = node->left; else node = node->right;
Replacement(h, node) ==
    IF h[node].left # NULL THEN h[node].left ELSE h[node].right

\* Mutation: the descent does not test key > node->data.first, so that a key
\* that is not smaller counts as found.
RECURSIVE EraseNode_NoGreaterTest(_, _, _, _)
EraseNode_NoGreaterTest(h, size, key, node) ==
    IF node = NULL
    THEN [heap |-> h, node |-> NULL, ret |-> NULL, size |-> size]
    ELSE IF key < h[node].data.first
    THEN LET r == EraseNode_NoGreaterTest(h, size, key, h[node].left)
         IN  [heap |-> [r.heap EXCEPT ![node].left = r.ret],
              node |-> node, ret |-> node, size |-> r.size]
    ELSE IF h[node].left # NULL /\ h[node].right # NULL
    THEN LET h1 == [h EXCEPT ![node].data = SuccessorData(h, node)]
             r  == EraseNode_NoGreaterTest(h1, size, h1[node].data.first, h1[node].right)
         IN  [heap |-> [r.heap EXCEPT ![node].right = r.node],
              node |-> node, ret |-> node, size |-> r.size]
    ELSE LET old == node
             new == Replacement(h, node)
         IN  [heap |-> Delete(h, old),
              node |-> new, ret |-> new, size |-> size - 1]

\* Erase(const KeyType& key, NodePointer& node): the heap and m_Size after the
\* call, the value of the link `node` after it, and the value returned.
RECURSIVE EraseNode(_, _, _, _)
EraseNode(h, size, key, node) ==
    IF node = NULL
    THEN [heap |-> h, node |-> NULL, ret |-> NULL, size |-> size]
    ELSE IF key < h[node].data.first
    THEN LET r == EraseNode(h, size, key, h[node].left)
         IN  [heap |-> [r.heap EXCEPT ![node].left = r.ret],
              node |-> node, ret |-> node, size |-> r.size]
    ELSE IF key > h[node].data.first
    THEN LET r == EraseNode(h, size, key, h[node].right)
         IN  [heap |-> [r.heap EXCEPT ![node].right = r.ret],
              node |-> node, ret |-> node, size |-> r.size]
    ELSE IF h[node].left # NULL /\ h[node].right # NULL
    THEN \* Erase(node->data.first, node->right): key aliases the node's own key,
         \* which the nested call never writes.
         LET h1 == [h EXCEPT ![node].data = SuccessorData(h, node)]
             r  == EraseNode(h1, size, h1[node].data.first, h1[node].right)
         IN  [heap |-> [r.heap EXCEPT ![node].right = r.node],
              node |-> node, ret |-> node, size |-> r.size]
    ELSE LET old == node
             new == Replacement(h, node)
         IN  [heap |-> Delete(h, old),
              node |-> new, ret |-> new, size |-> size - 1]

\* Mutation: the right child is a second copy of the left subtree.
RECURSIVE Copy_LeftTwice(_, _)
Copy_LeftTwice(h, node) ==
    IF node = NULL THEN [heap |-> h, root |-> NULL]
    ELSE LET root == NewAddr(h)
             h1   == [h EXCEPT ![root] = BinaryNode(h[node].data, NULL, NULL)]
             l    == Copy_LeftTwice(h1, h[node].left)
             h2   == [l.heap EXCEPT ![root].left = l.root]
             r    == Copy_LeftTwice(h2, h[node].left)
         IN  [heap |-> [r.heap EXCEPT ![root].right = r.root], root |-> root]

\* Mutation: the copy is the source's own root pointer.
Copy_Shallow(h, node) == [heap |-> h, root |-> node]

\* Copy(ConstNodePointer node): the heap after the call and the root of the
\* new tree.  The node is allocated before its children are copied.
RECURSIVE Copy(_, _)
Copy(h, node) ==
    IF node = NULL THEN [heap |-> h, root |-> NULL]
    ELSE LET root == NewAddr(h)
             h1   == [h EXCEPT ![root] = BinaryNode(h[node].data, NULL, NULL)]
             l    == Copy(h1, h[node].left)
             h2   == [l.heap EXCEPT ![root].left = l.root]
             r    == Copy(h2, h[node].right)
         IN  [heap |-> [r.heap EXCEPT ![root].right = r.root], root |-> root]

\* Insert(data, node), either overload, when `new BinaryNode` throws
\* std::bad_alloc: ++m_Size is done, `node = ...` is not, and the exception
\* leaves every frame of the descent before its assignment to node->left or
\* node->right.
RECURSIVE InsertNodeThrows(_, _, _, _)
InsertNodeThrows(h, size, data, node) ==
    IF node = NULL
    THEN [heap |-> h, node |-> NULL, size |-> size + 1, thrown |-> TRUE]
    ELSE IF data.first < h[node].data.first
    THEN LET r == InsertNodeThrows(h, size, data, h[node].left)
         IN  [heap   |-> IF r.thrown THEN r.heap
                         ELSE [r.heap EXCEPT ![node].left = r.node],
              node |-> node, size |-> r.size, thrown |-> r.thrown]
    ELSE IF data.first > h[node].data.first
    THEN LET r == InsertNodeThrows(h, size, data, h[node].right)
         IN  [heap   |-> IF r.thrown THEN r.heap
                         ELSE [r.heap EXCEPT ![node].right = r.node],
              node |-> node, size |-> r.size, thrown |-> r.thrown]
    ELSE [heap |-> h, node |-> node, size |-> size, thrown |-> FALSE]

\* Copy(node) when the `new` after n successful ones throws std::bad_alloc:
\* the heap when the exception leaves Copy, with the nodes made so far, and
\* how many allocations were still to succeed.
RECURSIVE CopyThrows(_, _, _)
CopyThrows(h, node, n) ==
    IF node = NULL THEN [heap |-> h, root |-> NULL, n |-> n, thrown |-> FALSE]
    ELSE IF n = 0 THEN [heap |-> h, root |-> NULL, n |-> 0, thrown |-> TRUE]
    ELSE LET root == NewAddr(h)
             h1   == [h EXCEPT ![root] = BinaryNode(h[node].data, NULL, NULL)]
             l    == CopyThrows(h1, h[node].left, n - 1)
             h2   == [l.heap EXCEPT ![root].left = l.root]
             r    == CopyThrows(h2, h[node].right, l.n)
         IN  IF l.thrown
             THEN [heap |-> l.heap, root |-> NULL, n |-> 0, thrown |-> TRUE]
             ELSE IF r.thrown
             THEN [heap |-> r.heap, root |-> NULL, n |-> 0, thrown |-> TRUE]
             ELSE [heap |-> [r.heap EXCEPT ![root].right = r.root],
                   root |-> root, n |-> r.n, thrown |-> FALSE]

\* ------------------------------------------------- observers
\* The addresses reachable from a link.
RECURSIVE Nodes(_, _)
Nodes(h, node) ==
    IF node = NULL THEN {}
    ELSE {node} \cup Nodes(h, h[node].left) \cup Nodes(h, h[node].right)

Size(t)  == m_Size[t]
Empty(t) == m_Size[t] = 0
\* ConstReference Min() const { return Min(m_Root)->data; }, and Max()
Min(t)   == heap[MinNode(heap, m_Root[t])].data
Max(t)   == heap[MaxNode(heap, m_Root[t])].data
Contains(t, key) == FindNode(heap, key, m_Root[t]) # NULL
Find(t, key) == heap[FindNode(heap, key, m_Root[t])].data.second

\* ------------------------------------------------- operations
Op(op, t, br) == [op |-> op, t |-> t, branch |-> br]

\* BinarySearchTree()
Construct(t) ==
    /\ ~live[t]
    /\ live'   = [live EXCEPT ![t] = TRUE]
    /\ m_Root' = [m_Root EXCEPT ![t] = NULL]
    /\ m_Size' = [m_Size EXCEPT ![t] = 0]
    /\ copied' = "none"
    /\ last'   = Op("Construct", t, "-")
    /\ UNCHANGED heap
    /\ UNCHANGED trav

\* ~BinarySearchTree(): Clear(m_Root).  The members of a destructed object
\* are no longer part of the program's state; they are kept at nullptr and 0.
Destruct(t) ==
    /\ live[t]
    /\ heap'   = ClearNode(heap, m_Root[t])
    /\ m_Root' = [m_Root EXCEPT ![t] = NULL]
    /\ m_Size' = [m_Size EXCEPT ![t] = 0]
    /\ live'   = [live EXCEPT ![t] = FALSE]
    /\ copied' = "none"
    /\ last'   = Op("Destruct", t, "-")
    /\ UNCHANGED trav

\* The branch of Insert(data, node) that ends the descent for this key; for a
\* key already stored, whether the pair offered carries the stored value.
InsertBranch(h, k, v, root) ==
    LET n == FindNode(h, k, root)
    IN  IF n = NULL THEN "new"
        ELSE IF h[n].data.second = v THEN "dup_same" ELSE "dup_diff"

\* void Insert(ConstReference data) { Insert(data, m_Root); }
Insert(t, k, v) ==
    /\ live[t]
    /\ FindNode(heap, k, m_Root[t]) = NULL => FreeAddrs(heap) # {}
    /\ LET r == InsertNode(heap, m_Size[t], Pair(k, v), m_Root[t])
       IN  /\ heap'   = r.heap
           /\ m_Root' = [m_Root EXCEPT ![t] = r.node]
           /\ m_Size' = [m_Size EXCEPT ![t] = r.size]
    /\ last' = Op("Insert", t, InsertBranch(heap, k, v, m_Root[t]))
    /\ UNCHANGED <<live, copied>>
    /\ UNCHANGED trav

\* void Insert(Pair&& data) { Insert( std::move(data), m_Root ); }
InsertMove(t, k, v) ==
    /\ live[t]
    /\ FindNode(heap, k, m_Root[t]) = NULL => FreeAddrs(heap) # {}
    /\ LET r == InsertNodeMove(heap, m_Size[t], Pair(k, v), m_Root[t])
       IN  /\ heap'   = r.heap
           /\ m_Root' = [m_Root EXCEPT ![t] = r.node]
           /\ m_Size' = [m_Size EXCEPT ![t] = r.size]
    /\ last' = Op("InsertMove", t, InsertBranch(heap, k, v, m_Root[t]))
    /\ UNCHANGED <<live, copied>>
    /\ UNCHANGED trav

\* The branch of Erase(key, node) that ends the descent for this key.
EraseBranch(h, key, root) ==
    LET n == FindNode(h, key, root)
    IN  IF n = NULL THEN "absent"
        ELSE IF h[n].left # NULL /\ h[n].right # NULL THEN "two"
        ELSE IF h[n].left # NULL \/ h[n].right # NULL THEN "one"
        ELSE "zero"

\* void Erase(KeyType key) { Erase(key, m_Root); }
Erase(t, k) ==
    /\ live[t]
    /\ LET r == EraseNode(heap, m_Size[t], k, m_Root[t])
       IN  /\ heap'   = r.heap
           /\ m_Root' = [m_Root EXCEPT ![t] = r.node]
           /\ m_Size' = [m_Size EXCEPT ![t] = r.size]
    /\ last' = Op("Erase", t, EraseBranch(heap, k, m_Root[t]))
    /\ UNCHANGED <<live, copied>>
    /\ UNCHANGED trav

\* Whether Clear() finds nodes to destroy.
ClearBranch(t) == IF m_Root[t] = NULL THEN "empty" ELSE "nonempty"

\* Mutation: Clear() without m_Size = 0.
Clear_KeepsSize(t) ==
    /\ live[t]
    /\ heap'   = ClearNode(heap, m_Root[t])
    /\ m_Root' = [m_Root EXCEPT ![t] = NULL]
    /\ last'   = Op("Clear", t, ClearBranch(t))
    /\ UNCHANGED <<m_Size, live, copied>>
    /\ UNCHANGED trav

\* void Clear() { Clear(m_Root); m_Size = 0; }
Clear(t) ==
    /\ live[t]
    /\ heap'   = ClearNode(heap, m_Root[t])
    /\ m_Root' = [m_Root EXCEPT ![t] = NULL]
    /\ m_Size' = [m_Size EXCEPT ![t] = 0]
    /\ last'   = Op("Clear", t, ClearBranch(t))
    /\ UNCHANGED <<live, copied>>
    /\ UNCHANGED trav

\* BinarySearchTree(const BinarySearchTree& other)
CopyConstruct(t, o) ==
    /\ ~live[t] /\ live[o]
    /\ Cardinality(FreeAddrs(heap)) >= Cardinality(Nodes(heap, m_Root[o]))
    /\ LET c == Copy(heap, m_Root[o])
       IN  /\ heap'   = c.heap
           /\ m_Root' = [m_Root EXCEPT ![t] = c.root]
    /\ m_Size' = [m_Size EXCEPT ![t] = m_Size[o]]
    /\ live'   = [live EXCEPT ![t] = TRUE]
    /\ copied' = t
    /\ last'   = Op("CopyConstruct", t, "-")
    /\ UNCHANGED trav

\* BinarySearchTree(BinarySearchTree&& other)
MoveConstruct(t, o) ==
    /\ ~live[t] /\ live[o]
    /\ m_Root' = [m_Root EXCEPT ![t] = m_Root[o], ![o] = NULL]
    /\ m_Size' = [m_Size EXCEPT ![t] = m_Size[o], ![o] = 0]
    /\ live'   = [live EXCEPT ![t] = TRUE]
    /\ copied' = "none"
    /\ last'   = Op("MoveConstruct", t, "-")
    /\ UNCHANGED heap
    /\ UNCHANGED trav

\* Whether the tree assigned to holds nodes for Clear() to destroy.
OntoBranch(t) == IF m_Root[t] = NULL THEN "onto_empty" ELSE "onto_nonempty"

\* BinarySearchTree& operator=(const BinarySearchTree& other)
CopyAssign(t, o) ==
    /\ live[t] /\ live[o]
    /\ IF t = o
       THEN /\ UNCHANGED <<heap, m_Root, m_Size, copied>>
            /\ last' = Op("CopyAssign", t, "self")
       ELSE LET h1 == ClearNode(heap, m_Root[t])      \* Clear()
                c  == Copy(h1, m_Root[o])
            IN  /\ Cardinality(FreeAddrs(h1)) >= Cardinality(Nodes(heap, m_Root[o]))
                /\ heap'   = c.heap
                /\ m_Root' = [m_Root EXCEPT ![t] = c.root]
                /\ m_Size' = [m_Size EXCEPT ![t] = m_Size[o]]
                /\ copied' = t
                /\ last'   = Op("CopyAssign", t, OntoBranch(t))
    /\ UNCHANGED live
    /\ UNCHANGED trav

\* Mutation: move assignment without the test this == &other.
MoveAssign_NoSelfTest(t, o) ==
    /\ live[t] /\ live[o]
    /\ heap'   = ClearNode(heap, m_Root[t])
    /\ m_Root' = [m_Root EXCEPT ![t] = IF t = o THEN NULL ELSE m_Root[o], ![o] = NULL]
    /\ m_Size' = [m_Size EXCEPT ![t] = IF t = o THEN 0 ELSE m_Size[o], ![o] = 0]
    /\ copied' = "none"
    /\ last'   = Op("MoveAssign", t, IF t = o THEN "self" ELSE OntoBranch(t))
    /\ UNCHANGED live
    /\ UNCHANGED trav

\* Mutation: move assignment without Clear().
MoveAssign_NoClear(t, o) ==
    /\ live[t] /\ live[o]
    /\ IF t = o
       THEN /\ UNCHANGED <<heap, m_Root, m_Size, copied>>
            /\ last' = Op("MoveAssign", t, "self")
       ELSE /\ heap'   = heap
            /\ m_Root' = [m_Root EXCEPT ![t] = m_Root[o], ![o] = NULL]
            /\ m_Size' = [m_Size EXCEPT ![t] = m_Size[o], ![o] = 0]
            /\ copied' = "none"
            /\ last'   = Op("MoveAssign", t, OntoBranch(t))
    /\ UNCHANGED live
    /\ UNCHANGED trav

\* BinarySearchTree& operator=(BinarySearchTree&& other)
MoveAssign(t, o) ==
    /\ live[t] /\ live[o]
    /\ IF t = o
       THEN /\ UNCHANGED <<heap, m_Root, m_Size, copied>>
            /\ last' = Op("MoveAssign", t, "self")
       ELSE /\ heap'   = ClearNode(heap, m_Root[t])   \* Clear()
            /\ m_Root' = [m_Root EXCEPT ![t] = m_Root[o], ![o] = NULL]
            /\ m_Size' = [m_Size EXCEPT ![t] = m_Size[o], ![o] = 0]
            /\ copied' = "none"
            /\ last'   = Op("MoveAssign", t, OntoBranch(t))
    /\ UNCHANGED live
    /\ UNCHANGED trav

\* Insert(ConstReference data) when the allocation of the node fails.
InsertThrows(t, k, v) ==
    /\ live[t]
    /\ FindNode(heap, k, m_Root[t]) = NULL
    /\ m_Size[t] < MaxSizeFail
    /\ LET r == InsertNodeThrows(heap, m_Size[t], Pair(k, v), m_Root[t])
       IN  /\ heap'   = r.heap
           /\ m_Root' = [m_Root EXCEPT ![t] = r.node]
           /\ m_Size' = [m_Size EXCEPT ![t] = r.size]
    /\ last' = Op("Insert", t, "throws")
    /\ UNCHANGED <<live, copied>>
    /\ UNCHANGED trav

\* Insert(Pair&& data) when the allocation of the node fails.
InsertMoveThrows(t, k, v) ==
    /\ live[t]
    /\ FindNode(heap, k, m_Root[t]) = NULL
    /\ m_Size[t] < MaxSizeFail
    /\ LET r == InsertNodeThrows(heap, m_Size[t], Pair(k, v), m_Root[t])
       IN  /\ heap'   = r.heap
           /\ m_Root' = [m_Root EXCEPT ![t] = r.node]
           /\ m_Size' = [m_Size EXCEPT ![t] = r.size]
    /\ last' = Op("InsertMove", t, "throws")
    /\ UNCHANGED <<live, copied>>
    /\ UNCHANGED trav

\* operator=(const BinarySearchTree& other) when an allocation in Copy fails
\* after n nodes were made: Clear() is done, the assignments to m_Root and
\* m_Size are not.
CopyAssignThrows(t, o, n) ==
    /\ live[t] /\ live[o] /\ t # o
    /\ n < Cardinality(Nodes(heap, m_Root[o]))
    /\ LET h1 == ClearNode(heap, m_Root[t])      \* Clear()
           c  == CopyThrows(h1, m_Root[o], n)
       IN  /\ Cardinality(FreeAddrs(h1)) >= n
           /\ heap'   = c.heap
           /\ m_Root' = [m_Root EXCEPT ![t] = NULL]
           /\ m_Size' = [m_Size EXCEPT ![t] = 0]
    /\ copied' = "none"
    /\ last'   = Op("CopyAssign", t, "throws")
    /\ UNCHANGED live
    /\ UNCHANGED trav

\* void LevelByLevel(std::ostream& out) const, up to its loop: nothing is
\* done for a tree without root, else the root and the delimiter are queued.
LevelByLevel(t) ==
    /\ live[t] /\ pc = "idle"
    /\ IF m_Root[t] = NULL
       THEN /\ pc' = "done"
            /\ q'  = <<>>
            /\ last' = Op("LevelByLevel", t, "empty")
       ELSE /\ pc' = "loop"
            /\ q'  = <<m_Root[t], DELIMETER>>
            /\ last' = Op("LevelByLevel", t, "nonempty")
    /\ out' = <<>>
    /\ UNCHANGED <<heap, m_Root, m_Size, live, copied>>

\* What q.front() may give: the head of the queue; on an empty queue the
\* behaviour is undefined, and any pointer may be read.
Front(h, queue) ==
    IF queue # <<>> THEN {Head(queue)} ELSE Allocated(h) \cup {DELIMETER}

\* The queue after q.pop().
Pop(queue) == IF queue # <<>> THEN Tail(queue) ELSE <<>>

\* Mutation: the right child is queued before the left one.
LevelStep_RightFirst(t) ==
    /\ pc = "loop" /\ last.t = t
    /\ \/ /\ q = <<>>
          /\ pc' = "crashed"
          /\ UNCHANGED <<q, out>>
       \/ \E curr \in Front(heap, q) :
             LET q1 == Pop(q)
             IN  IF curr = DELIMETER
                 THEN /\ out' = Append(out, "\n")
                      /\ IF q1 = <<>>
                         THEN pc' = "done" /\ q' = q1
                         ELSE pc' = "loop" /\ q' = Append(q1, DELIMETER)
                 ELSE /\ out' = out \o <<heap[curr].data.second, " ">>
                      /\ q'   = q1
                                \o (IF heap[curr].right # NULL
                                    THEN <<heap[curr].right>> ELSE <<>>)
                                \o (IF heap[curr].left # NULL
                                    THEN <<heap[curr].left>> ELSE <<>>)
                      /\ pc'  = "loop"
    /\ UNCHANGED <<heap, m_Root, m_Size, live, copied, last>>

\* Mutation: the delimiter is not queued again after a level.
LevelStep_NoRepush(t) ==
    /\ pc = "loop" /\ last.t = t
    /\ \/ /\ q = <<>>
          /\ pc' = "crashed"
          /\ UNCHANGED <<q, out>>
       \/ \E curr \in Front(heap, q) :
             LET q1 == Pop(q)
             IN  IF curr = DELIMETER
                 THEN /\ out' = Append(out, "\n")
                      /\ IF q1 = <<>>
                         THEN pc' = "done" /\ q' = q1
                         ELSE pc' = "loop" /\ q' = q1
                 ELSE /\ out' = out \o <<heap[curr].data.second, " ">>
                      /\ q'   = q1
                                \o (IF heap[curr].left # NULL
                                    THEN <<heap[curr].left>> ELSE <<>>)
                                \o (IF heap[curr].right # NULL
                                    THEN <<heap[curr].right>> ELSE <<>>)
                      /\ pc'  = "loop"
    /\ UNCHANGED <<heap, m_Root, m_Size, live, copied, last>>

\* One turn of the while (1) loop of LevelByLevel.  Taking the front of an
\* empty queue is undefined: the call may crash, or go on with any pointer.
LevelStep(t) ==
    /\ pc = "loop" /\ last.t = t
    /\ \/ /\ q = <<>>
          /\ pc' = "crashed"
          /\ UNCHANGED <<q, out>>
       \/ \E curr \in Front(heap, q) :
             LET q1 == Pop(q)
             IN  IF curr = DELIMETER
                 THEN /\ out' = Append(out, "\n")
                      /\ IF q1 = <<>>
                         THEN pc' = "done" /\ q' = q1
                         ELSE pc' = "loop" /\ q' = Append(q1, DELIMETER)
                 ELSE /\ out' = out \o <<heap[curr].data.second, " ">>
                      /\ q'   = q1
                                \o (IF heap[curr].left # NULL
                                    THEN <<heap[curr].left>> ELSE <<>>)
                                \o (IF heap[curr].right # NULL
                                    THEN <<heap[curr].right>> ELSE <<>>)
                      /\ pc'  = "loop"
    /\ UNCHANGED <<heap, m_Root, m_Size, live, copied, last>>

\* LevelByLevel has returned; the caller goes on with a fresh stream.
LevelReturn ==
    /\ pc = "done"
    /\ pc' = "idle" /\ q' = <<>> /\ out' = <<>>
    /\ UNCHANGED <<heap, m_Root, m_Size, live, copied, last>>

\* ------------------------------------------------- specifications
\* Both objects, every public operation.  A is default-constructed, B is
\* not constructed yet.
Init ==
    /\ live   = [t \in Trees |-> t = "A"]
    /\ m_Root = [t \in Trees |-> NULL]
    /\ m_Size = [t \in Trees |-> 0]
    /\ heap   = [a \in 1..MaxNodesTwo |-> Free]
    /\ copied = "none"
    /\ last   = Op("Construct", "A", "-")
    /\ pc = "idle" /\ q = <<>> /\ out = <<>>

Next ==
    \/ \E t \in Trees : Construct(t)
    \/ \E t \in Trees : Destruct(t)
    \/ \E t \in Trees, k \in KeysTwo, v \in Values : Insert(t, k, v)
    \/ \E t \in Trees, k \in KeysTwo : Erase(t, k)
    \/ \E t \in Trees : Clear(t)
    \/ \E t, o \in Trees : CopyConstruct(t, o)
    \/ \E t, o \in Trees : MoveConstruct(t, o)
    \/ \E t, o \in Trees : CopyAssign(t, o)
    \/ \E t, o \in Trees : MoveAssign(t, o)

Spec == Init /\ [][Next]_vars

\* One object, A, constructed empty or from a single pair, under Insert,
\* Erase and Clear.
InitTree ==
    /\ live   = [t \in Trees |-> t = "A"]
    /\ copied = "none"
    /\ pc = "idle" /\ q = <<>> /\ out = <<>>
    /\ \/ /\ heap   = [a \in 1..MaxNodes |-> Free]
          /\ m_Root = [t \in Trees |-> NULL]
          /\ m_Size = [t \in Trees |-> 0]
          /\ last   = Op("Construct", "A", "-")
       \/ \E k \in Keys, v \in Values :
          /\ heap   = [a \in 1..MaxNodes |->
                         IF a = 1 THEN BinaryNode(Pair(k, v), NULL, NULL) ELSE Free]
          /\ m_Root = [t \in Trees |-> IF t = "A" THEN 1 ELSE NULL]
          /\ m_Size = [t \in Trees |-> IF t = "A" THEN 1 ELSE 0]
          /\ last   = Op("ConstructPair", "A", "-")

NextTree ==
    \/ \E k \in Keys, v \in Values : Insert("A", k, v)
    \/ \E k \in Keys, v \in Values : InsertMove("A", k, v)
    \/ \E k \in Keys : Erase("A", k)
    \/ Clear("A")

SpecTree == InitTree /\ [][NextTree]_vars

\* Two default-constructed objects under Insert, Erase, Clear and copy
\* assignment, where `new` may throw std::bad_alloc.
InitFail ==
    /\ live   = [t \in Trees |-> TRUE]
    /\ m_Root = [t \in Trees |-> NULL]
    /\ m_Size = [t \in Trees |-> 0]
    /\ heap   = [a \in 1..MaxNodesFail |-> Free]
    /\ copied = "none"
    /\ last   = Op("Construct", "B", "-")
    /\ pc = "idle" /\ q = <<>> /\ out = <<>>

NextFail ==
    \/ \E t \in Trees, k \in KeysFail, v \in Values : Insert(t, k, v)
    \/ \E t \in Trees, k \in KeysFail, v \in Values : InsertThrows(t, k, v)
    \/ \E t \in Trees, k \in KeysFail, v \in Values : InsertMoveThrows(t, k, v)
    \/ \E t \in Trees, k \in KeysFail : Erase(t, k)
    \/ \E t \in Trees : Clear(t)
    \/ \E t, o \in Trees : t # o /\ CopyAssign(t, o)
    \/ \E t, o \in Trees, n \in 0..MaxKeyFail : CopyAssignThrows(t, o, n)

SpecFail == InitFail /\ [][NextFail]_vars

\* One object, A, filled by Insert and printed by LevelByLevel; a call of
\* LevelByLevel runs to its return before the next operation is called.
InitLevel ==
    /\ live   = [t \in Trees |-> t = "A"]
    /\ m_Root = [t \in Trees |-> NULL]
    /\ m_Size = [t \in Trees |-> 0]
    /\ heap   = [a \in 1..MaxNodesLevel |-> Free]
    /\ copied = "none"
    /\ last   = Op("Construct", "A", "-")
    /\ pc = "idle" /\ q = <<>> /\ out = <<>>

NextLevel ==
    \/ \E k \in KeysLevel, v \in Values : pc = "idle" /\ Insert("A", k, v)
    \/ LevelByLevel("A")
    \/ LevelStep("A")
    \/ LevelReturn

SpecLevel == InitLevel /\ [][NextLevel]_vars

\* The loop of a call that was started goes on until the call returns.
SpecLevelFair == InitLevel /\ [][NextLevel]_vars /\ WF_vars(LevelStep("A"))

\* ------------------------------------------------- what a tree holds
\* The keys of a subtree, left subtree first.
RECURSIVE InOrder(_, _)
InOrder(h, node) ==
    IF node = NULL THEN <<>>
    ELSE InOrder(h, h[node].left) \o <<h[node].data.first>> \o InOrder(h, h[node].right)

\* The subtree as a value: key, value, left child, right child, node for node.
RECURSIVE Shape(_, _)
Shape(h, node) ==
    IF node = NULL THEN <<>>
    ELSE <<h[node].data.first, h[node].data.second,
           Shape(h, h[node].left), Shape(h, h[node].right)>>

KeysOf(h, node) == {h[n].data.first : n \in Nodes(h, node)}

StrictlyIncreasing(seq) == \A i \in 1..(Len(seq) - 1) : seq[i] < seq[i + 1]

Ordered(h, root) ==
    \A n \in Nodes(h, root) :
        /\ \A m \in Nodes(h, h[n].left)  : h[m].data.first < h[n].data.first
        /\ \A m \in Nodes(h, h[n].right) : h[m].data.first > h[n].data.first

\* ------------------------------------------------------------- claims
\* C1: in every tree reachable from an empty or single-pair tree by Insert
\* and Erase, every node's left subtree holds only smaller keys and its right
\* subtree only greater ones, and the in-order keys are strictly increasing.
C1_Ordering ==
    \A t \in Trees : live[t] =>
        /\ Ordered(heap, m_Root[t])
        /\ StrictlyIncreasing(InOrder(heap, m_Root[t]))

\* An Insert has filled the tree with the keys 1 to 4 around a root that has
\* both children.
C1_Witness ==
    /\ last.op = "Insert" /\ last.branch = "new"
    /\ InOrder(heap, m_Root["A"]) = <<1, 2, 3, 4>>
    /\ heap[m_Root["A"]].left # NULL /\ heap[m_Root["A"]].right # NULL

\* m_Size is the number of nodes below m_Root.
SizeMatches ==
    \A t \in Trees : live[t] =>
        /\ Size(t) = Cardinality(Nodes(heap, m_Root[t]))
        /\ Size(t) = Len(InOrder(heap, m_Root[t]))

\* What one call does to m_Size, by the branch it took.
SizeStep ==
    LET t == last'.t
    IN  /\ last'.op \in {"Insert", "InsertMove"}
             => m_Size'[t] = m_Size[t] + (IF last'.branch = "new" THEN 1 ELSE 0)
        /\ last'.op = "Erase"
             => m_Size'[t] = m_Size[t] - (IF last'.branch = "absent" THEN 0 ELSE 1)
        /\ last'.op = "Clear" => m_Size'[t] = 0

\* C2: Size() is the number of nodes reachable from the root after any
\* sequence of Insert, Erase and Clear; an Insert of an absent key adds one to
\* it, an Erase of a present key takes one off, and an Insert of a present key
\* or an Erase of an absent one leaves it, so that it is N - M.  (last'.branch
\* says whether the key of the call was stored when the call was made.)
C2_Size == []SizeMatches /\ [][SizeStep]_vars

\* An Erase of a present key has acted and two of the pairs inserted remain.
C2_Witness ==
    /\ last.op = "Erase" /\ last.branch # "absent"
    /\ Size("A") = 2
    /\ Cardinality(Nodes(heap, m_Root["A"])) = 2

\* The step is a call of either Insert overload with this pair.
IsInsertOf(t, k, v) == Insert(t, k, v) \/ InsertMove(t, k, v)

\* The step changes neither Contains(k) nor Find(k).
Kept(t, k) ==
    /\ Contains(t, k)' = Contains(t, k)
    /\ Contains(t, k) => Find(t, k)' = Find(t, k)

\* What an Erase step and an Insert step do to each key.
RoundTripStep ==
    \A t \in Trees : last'.t = t =>
        /\ last'.op = "Erase" =>
             \A k \in Keys :
                 IF Erase(t, k) THEN ~Contains(t, k)' ELSE Kept(t, k)
        /\ last'.op \in {"Insert", "InsertMove"} =>
             \A k \in Keys :
                 IF Contains(t, k) THEN Kept(t, k)
                 ELSE /\ \A v \in Values :
                           IsInsertOf(t, k, v) => Contains(t, k)' /\ Find(t, k)' = v
                      /\ (~\E v \in Values : IsInsertOf(t, k, v)) => ~Contains(t, k)'

\* C3: a key inserted is contained, and Find gives the value it was inserted
\* with, in every later state until Erase of that key; after Erase of the key
\* it is not contained until it is inserted again; Insert and Erase of other
\* keys, and Insert of the key itself while it is stored, change neither.
C3_RoundTrip == [][RoundTripStep]_vars

\* Two keys inserted with different values are found with them after a
\* two-child Erase of a third key.
C3_Witness ==
    /\ last.op = "Erase" /\ last.branch = "two"
    /\ \E k1, k2 \in Keys :
         /\ Contains("A", k1) /\ Find("A", k1) = "a"
         /\ Contains("A", k2) /\ Find("A", k2) = "b"

\* An Insert step whose key was stored.
DuplicateInsertStep ==
    ( /\ last'.op \in {"Insert", "InsertMove"}
      /\ last'.branch \in {"dup_same", "dup_diff"} )
        => UNCHANGED <<heap, m_Root, m_Size>>

\* C4: Insert of a pair whose key is already stored, by the copy overload or
\* the move overload, changes nothing: every node keeps its key, value, left
\* and right child, the root and Size() are the same.
C4_DuplicateInsert == [][DuplicateInsertStep]_vars

\* The move overload was called with a stored key and another value; the
\* tree holds three pairs.
C4_Witness ==
    /\ last.op = "InsertMove" /\ last.branch = "dup_diff"
    /\ Size("A") = 3

\* The node whose left or right link is n.
Parent(h, root, n) ==
    CHOOSE p \in Nodes(h, root) : h[p].left = n \/ h[p].right = n

Without(seq, k) == SelectSeq(seq, LAMBDA x : x # k)

\* The Erase step of a key whose node has two children.
TwoChildEraseStep ==
    \A t \in Trees, k \in Keys :
        ( /\ last'.op = "Erase" /\ last'.branch = "two" /\ last'.t = t
          /\ Contains(t, k) /\ Erase(t, k) ) =>
            LET n    == FindNode(heap, k, m_Root[t])
                succ == MinNode(heap, heap[n].right)
                p    == Parent(heap, m_Root[t], succ)
            IN  /\ m_Root'[t] = m_Root[t]
                /\ heap'[n].st = "node"
                /\ heap'[n].data = heap[succ].data
                /\ heap'[n].left = heap[n].left
                /\ heap'[succ] = Free
                /\ Nodes(heap', m_Root'[t]) = Nodes(heap, m_Root[t]) \ {succ}
                /\ Nodes(heap', heap'[n].right) = Nodes(heap, heap[n].right) \ {succ}
                /\ \A a \in DOMAIN heap \ {n, succ, p} : heap'[a] = heap[a]
                /\ InOrder(heap', m_Root'[t]) = Without(InOrder(heap, m_Root[t]), k)
                /\ m_Size'[t] = m_Size[t] - 1
                /\ Ordered(heap', m_Root'[t])

\* C5: Erase(key) on a node with two children leaves the node in place with
\* the key and value of the minimum of its right subtree, removes that
\* minimum's own node from the right subtree and no other node, takes one off
\* Size() and keeps the ordering.
C5_TwoChildErase == [][TwoChildEraseStep]_vars

\* A two-child Erase has acted on a tree of four pairs.
C5_Witness ==
    /\ last.op = "Erase" /\ last.branch = "two"
    /\ Size("A") = 3
    /\ Cardinality(Nodes(heap, m_Root["A"])) = 3

\* The Erase step of a key whose node has at most one child.
LeafOrOneChildEraseStep ==
    \A t \in Trees, k \in Keys :
        ( /\ last'.op = "Erase" /\ last'.branch \in {"zero", "one"} /\ last'.t = t
          /\ Contains(t, k) /\ Erase(t, k) ) =>
            LET n     == FindNode(heap, k, m_Root[t])
                child == IF heap[n].left # NULL THEN heap[n].left ELSE heap[n].right
            IN  /\ heap'[n] = Free
                /\ m_Size'[t] = m_Size[t] - 1
                /\ IF n = m_Root[t]
                   THEN /\ m_Root'[t] = child
                        /\ \A a \in DOMAIN heap \ {n} : heap'[a] = heap[a]
                   ELSE LET p == Parent(heap, m_Root[t], n)
                        IN  /\ m_Root'[t] = m_Root[t]
                            /\ heap'[p] = IF heap[p].left = n
                                          THEN [heap[p] EXCEPT !.left = child]
                                          ELSE [heap[p] EXCEPT !.right = child]
                            /\ \A a \in DOMAIN heap \ {n, p} : heap'[a] = heap[a]

\* C6: Erase(key) on a node with no child or one child puts that child, or
\* nullptr, into the link that held the node (the parent's, or m_Root),
\* destroys the node, takes one off Size() and leaves every other node as it
\* was.
C6_LeafOrOneChildErase == [][LeafOrOneChildEraseStep]_vars

\* A one-child Erase has acted and left a tree that still has a root with a
\* child below it.
C6_Witness ==
    /\ last.op = "Erase" /\ last.branch = "one"
    /\ Size("A") = 3
    /\ Cardinality(Nodes(heap, m_Root["A"])) = 3

\* An Erase step whose key was not stored.
AbsentEraseStep ==
    (last'.op = "Erase" /\ last'.branch = "absent")
        => UNCHANGED <<heap, m_Root, m_Size>>

\* C7: Erase(key) of a key that is not stored, the empty tree included,
\* changes nothing: nodes, root and Size() are the same.
C7_AbsentErase == [][AbsentEraseStep]_vars

\* An Erase of a key that is not stored has acted on a tree of three pairs.
C7_Witness ==
    /\ last.op = "Erase" /\ last.branch = "absent"
    /\ Size("A") = 3
    /\ m_Root["A"] # NULL

Other(t) == CHOOSE o \in Trees : o # t

\* A copy construction or copy assignment from the other tree.
CopyStep ==
    \A t \in Trees :
        ( /\ last'.t = t
          /\ \/ last'.op = "CopyConstruct"
             \/ last'.op = "CopyAssign" /\ last'.branch # "self" ) =>
            /\ m_Size'[t] = m_Size[Other(t)]
            /\ Shape(heap', m_Root'[t]) = Shape(heap, m_Root[Other(t)])
            /\ Cardinality(Nodes(heap', m_Root'[t])) = m_Size'[t]

\* C8: copy construction and copy assignment give the destination the
\* source's Size() and the source's structure node for node (key, value, left
\* and right position), whatever the destination held before.
C8_Copy == [][CopyStep]_vars

\* A tree that held nodes was assigned a copy of a tree of two pairs.
C8_Witness ==
    /\ last.op = "CopyAssign" /\ last.branch = "onto_nonempty"
    /\ Size(last.t) = 2
    /\ Shape(heap, m_Root["A"]) = Shape(heap, m_Root["B"])

\* No node is below both roots.
SharesNoNode ==
    (copied # "none" /\ live["A"] /\ live["B"]) =>
        Nodes(heap, m_Root["A"]) \cap Nodes(heap, m_Root["B"]) = {}

\* Insert, Erase or Clear on one tree, seen from the other.
IndependentStep ==
    \A t \in Trees :
        ( /\ copied # "none" /\ last'.t = t
          /\ last'.op \in {"Insert", "Erase", "Clear"} ) =>
            /\ m_Root'[Other(t)] = m_Root[Other(t)]
            /\ m_Size'[Other(t)] = m_Size[Other(t)]
            /\ \A a \in Nodes(heap, m_Root[Other(t)]) : heap'[a] = heap[a]

\* C9: once one tree was made a copy of the other, the two share no node, and
\* Insert, Erase and Clear on either leave the other's root, size and nodes
\* as they were.
C9_CopyIndependence == []SharesNoNode /\ [][IndependentStep]_vars

\* B was made a copy of A and a pair was then erased from B; A still has its
\* two.
C9_Witness ==
    /\ copied = "B"
    /\ last.op = "Erase" /\ last.t = "B" /\ last.branch # "absent"
    /\ Size("A") = 2 /\ Size("B") = 1
    /\ Cardinality(Nodes(heap, m_Root["A"])) = 2

\* A move construction or move assignment from the other tree.
MoveStep ==
    \A t \in Trees :
        ( /\ last'.t = t
          /\ \/ last'.op = "MoveConstruct"
             \/ last'.op = "MoveAssign" /\ last'.branch # "self" ) =>
            /\ m_Root'[t] = m_Root[Other(t)]
            /\ m_Size'[t] = m_Size[Other(t)]
            /\ \A a \in Nodes(heap, m_Root[Other(t)]) : heap'[a] = heap[a]
            /\ Shape(heap', m_Root'[t]) = Shape(heap, m_Root[Other(t)])
            /\ m_Root'[Other(t)] = NULL
            /\ m_Size'[Other(t)] = 0
            /\ Empty(Other(t))'
            /\ \A a \in Nodes(heap, m_Root[t]) : heap'[a] = Free
            /\ Allocated(heap') = Allocated(heap) \ Nodes(heap, m_Root[t])

\* C10: move construction and move assignment from another tree give the
\* destination the source's root, nodes, pairs, shape and size, leave the
\* source without root and with Size() 0, and destroy the nodes the
\* destination held.
C10_Move == [][MoveStep]_vars

\* A tree that held nodes was move-assigned a tree of two pairs, and only
\* those two nodes are left allocated.
C10_Witness ==
    /\ last.op = "MoveAssign" /\ last.branch = "onto_nonempty"
    /\ Size(last.t) = 2
    /\ Empty(Other(last.t)) /\ m_Root[Other(last.t)] = NULL
    /\ Allocated(heap) = Nodes(heap, m_Root[last.t])

\* An assignment of a tree to itself.
SelfAssignStep ==
    \A t \in Trees :
        ( /\ last'.op \in {"CopyAssign", "MoveAssign"}
          /\ last'.branch = "self" /\ last'.t = t ) =>
            /\ m_Root'[t] = m_Root[t]
            /\ m_Size'[t] = m_Size[t]
            /\ Shape(heap', m_Root'[t]) = Shape(heap, m_Root[t])
            /\ Allocated(heap') = Allocated(heap)
            /\ heap' = heap
            /\ m_Root' = m_Root /\ m_Size' = m_Size /\ live' = live

\* C11: assigning a tree to itself, by move assignment or by copy
\* assignment, changes nothing: root, shape, stored pairs and Size() are the
\* same and no node is destroyed.
C11_SelfAssign == [][SelfAssignStep]_vars

\* A tree of two pairs was move-assigned to itself and still has both.
C11_Witness ==
    /\ last.op = "MoveAssign" /\ last.branch = "self"
    /\ Size(last.t) = 2
    /\ Cardinality(Nodes(heap, m_Root[last.t])) = 2
    /\ Cardinality(Allocated(heap)) = 2

\* An Insert whose allocation failed.
InsertThrowsStep ==
    \A t \in Trees :
        ( /\ last'.op \in {"Insert", "InsertMove"}
          /\ last'.branch = "throws" /\ last'.t = t ) =>
            /\ m_Root'[t] = m_Root[t]
            /\ Shape(heap', m_Root'[t]) = Shape(heap, m_Root[t])
            /\ heap' = heap
            /\ m_Size'[t] = m_Size[t]
            /\ (m_Size[t] = Cardinality(Nodes(heap, m_Root[t]))
                  => m_Size'[t] = Cardinality(Nodes(heap', m_Root'[t])))

\* C12: an Insert whose allocation fails leaves the root, the shape, the
\* stored pairs and Size() as they were before the call, so that Size() is
\* still the number of nodes.
C12_InsertAtomic == [][InsertThrowsStep]_vars

\* The pairs stored in the nodes of a subtree.
PairsOf(h, node) == {h[n].data : n \in Nodes(h, node)}

\* The nodes met from a link by following left links only, right links only.
RECURSIVE LeftSpine(_, _)
LeftSpine(h, node) ==
    IF node = NULL THEN {} ELSE {node} \cup LeftSpine(h, h[node].left)

RECURSIVE RightSpine(_, _)
RightSpine(h, node) ==
    IF node = NULL THEN {} ELSE {node} \cup RightSpine(h, h[node].right)

\* C13: on every non-empty tree reachable by Insert and Erase, Min() is the
\* stored pair with the smallest key and Max() the stored pair with the
\* largest key, and the node read is the last one on the path of left links,
\* respectively right links, from the root.
C13_MinMax ==
    \A t \in Trees : (live[t] /\ m_Root[t] # NULL) =>
        LET ks == KeysOf(heap, m_Root[t])
            mn == MinNode(heap, m_Root[t])
            mx == MaxNode(heap, m_Root[t])
        IN  /\ Min(t) \in PairsOf(heap, m_Root[t])
            /\ \A k \in ks : Min(t).first <= k
            /\ mn \in LeftSpine(heap, m_Root[t]) /\ heap[mn].left = NULL
            /\ Max(t) \in PairsOf(heap, m_Root[t])
            /\ \A k \in ks : Max(t).first >= k
            /\ mx \in RightSpine(heap, m_Root[t]) /\ heap[mx].right = NULL

\* After an Erase the tree has three pairs, the smallest below the root's left
\* link and the largest below its right link.
C13_Witness ==
    /\ last.op = "Erase" /\ last.branch # "absent"
    /\ Size("A") = 3
    /\ MinNode(heap, m_Root["A"]) # m_Root["A"]
    /\ MaxNode(heap, m_Root["A"]) # m_Root["A"]
    /\ Max("A").first > Min("A").first

\* Whether child is the left or right child of parent.
IsChildOf(h, child, parent) == h[parent].left = child \/ h[parent].right = child

\* A Clear() step.
ClearStep ==
    \A t \in Trees :
        (last'.op = "Clear" /\ last'.t = t) =>
            LET ns  == Nodes(heap, m_Root[t])
                ord == ClearRun(heap, m_Root[t]).order
            IN  /\ \A a \in ns : heap'[a] = Free
                /\ \A a \in DOMAIN heap \ ns : heap'[a] = heap[a]
                /\ m_Root'[t] = NULL
                /\ m_Size'[t] = 0
                /\ Len(ord) = Cardinality(ns)
                /\ {ord[i] : i \in 1..Len(ord)} = ns
                /\ \A i, j \in 1..Len(ord) :
                       IsChildOf(heap, ord[j], ord[i]) => j < i

\* The Insert that follows a Clear().
InsertAfterClearStep ==
    \A t \in Trees :
        ( /\ last.op = "Clear" /\ last.t = t /\ last'.t = t
          /\ last'.op \in {"Insert", "InsertMove"} ) =>
            /\ last'.branch = "new"
            /\ m_Size'[t] = 1
            /\ m_Root'[t] # NULL
            /\ \A k \in Keys, v \in Values :
                   IsInsertOf(t, k, v) =>
                       heap'[m_Root'[t]] = BinaryNode(Pair(k, v), NULL, NULL)

\* C14: Clear(), on an empty tree too, destroys every node of the tree once,
\* each after its children, and nothing else, and leaves the tree without
\* root and with Size() 0; an Insert after it makes a tree of that one pair.
C14_Clear == [][ClearStep /\ InsertAfterClearStep]_vars

\* Clear() has acted on a tree that held nodes; nothing is allocated.
C14_Witness ==
    /\ last.op = "Clear" /\ last.branch = "nonempty"
    /\ m_Root["A"] = NULL /\ Size("A") = 0
    /\ Allocated(heap) = {}

\* The nodes of a subtree at depth d below its root, from left to right.
RECURSIVE LevelSeq(_, _, _)
LevelSeq(h, node, d) ==
    IF node = NULL THEN <<>>
    ELSE IF d = 0 THEN <<node>>
    ELSE LevelSeq(h, h[node].left, d - 1) \o LevelSeq(h, h[node].right, d - 1)

\* The number of levels of a subtree.
RECURSIVE Height(_, _)
Height(h, node) ==
    IF node = NULL THEN 0
    ELSE LET l == Height(h, h[node].left)
             r == Height(h, h[node].right)
         IN  1 + (IF l > r THEN l ELSE r)

\* The values of a sequence of nodes, each followed by a blank.
RECURSIVE ValuesOf(_, _)
ValuesOf(h, ns) ==
    IF ns = <<>> THEN <<>>
    ELSE <<h[Head(ns)].data.second, " ">> \o ValuesOf(h, Tail(ns))

\* The levels d, d + 1, ... of the tree, a line each.
RECURSIVE Lines(_, _, _)
Lines(h, root, d) ==
    IF d >= Height(h, root) THEN <<>>
    ELSE ValuesOf(h, LevelSeq(h, root, d)) \o <<"\n">> \o Lines(h, root, d + 1)

IsPrefix(s1, s2) == Len(s1) <= Len(s2) /\ SubSeq(s2, 1, Len(s1)) = s1

Count(seq, x) == Cardinality({i \in 1..Len(seq) : seq[i] = x})

\* C15: LevelByLevel on a tree with a root writes the value of every node
\* once, level by level from the root down and from left to right within a
\* level, and a line break after each level, so that the lines written are
\* as many as the tree has levels.
C15_LevelOrder ==
    \A t \in Trees :
        (last.op = "LevelByLevel" /\ last.t = t /\ last.branch = "nonempty") =>
            /\ IsPrefix(out, Lines(heap, m_Root[t], 0))
            /\ pc = "done" =>
                  /\ out = Lines(heap, m_Root[t], 0)
                  /\ Count(out, "\n") = Height(heap, m_Root[t])
                  /\ Count(out, " ") = Cardinality(Nodes(heap, m_Root[t]))

\* A call has returned on a tree of five nodes whose third level has a node
\* below each child of the root and holds both values.
C15_Witness ==
    /\ last.op = "LevelByLevel" /\ pc = "done"
    /\ Size("A") = 5
    /\ LET root == m_Root["A"]
           l    == heap[root].left
           r    == heap[root].right
       IN  /\ l # NULL /\ r # NULL
           /\ Nodes(heap, l) # {l} /\ Nodes(heap, r) # {r}
           /\ Len(LevelSeq(heap, root, 2)) = 2
           /\ {heap[n].data.second : n \in Nodes(heap, root)} = Values
           /\ heap[LevelSeq(heap, root, 2)[1]].data.second
                 # heap[LevelSeq(heap, root, 2)[2]].data.second
    /\ Count(out, "\n") = 3

\* While LevelByLevel runs, and when it returns.
LevelFrameStep ==
    /\ (pc = "loop" \/ pc' = "loop" \/ last'.op = "LevelByLevel")
         => UNCHANGED <<heap, m_Root, m_Size>>
    /\ (last'.op = "LevelByLevel" /\ last'.branch = "empty" /\ pc = "idle")
         => (pc' = "done" /\ out' = <<>>)
    /\ (pc = "loop" /\ pc' = "done")
         => (Head(q) = DELIMETER /\ Len(q) = 1 /\ q' = <<>>)

\* C16: LevelByLevel returns: at once and with nothing written on a tree
\* without root, and else when the delimiter is taken from a queue that holds
\* nothing else, which every call comes to; the front of an empty queue is
\* never taken, and the tree is as it was.
C16_Terminates ==
    /\ [](pc = "loop" => q # <<>>)
    /\ [](pc # "crashed")
    /\ [][LevelFrameStep]_vars
    /\ (pc = "loop") ~> (pc = "done")

\* A call has returned on a chain of four nodes after four lines.
C16_Witness ==
    /\ last.op = "LevelByLevel" /\ last.branch = "nonempty"
    /\ pc = "done" /\ q = <<>>
    /\ Height(heap, m_Root["A"]) = 4
    /\ Size("A") = 4
    /\ Count(out, "\n") = 4

\* A copy assignment in which an allocation failed.
CopyAssignThrowsStep ==
    \A t \in Trees :
        ( /\ last'.op = "CopyAssign" /\ last'.branch = "throws"
          /\ last'.t = t ) =>
            /\ m_Root'[t] = m_Root[t]
            /\ Shape(heap', m_Root'[t]) = Shape(heap, m_Root[t])
            /\ m_Size'[t] = m_Size[t]
            /\ Allocated(heap') = Allocated(heap)

\* C17: a copy assignment in which the allocation of a node of the copy
\* fails leaves the tree assigned to with the root, shape, pairs and size it
\* had, and leaves no node of the unfinished copy allocated.
C17_CopyAssignAtomic == [][CopyAssignThrowsStep]_vars

\* The stored pairs are a map: one node and one value for each key.
IsMap ==
    \A t \in Trees : live[t] =>
        LET m == PairsOf(heap, m_Root[t])
        IN  /\ \A p1, p2 \in m : p1.first = p2.first => p1 = p2
            /\ Cardinality(m) = Cardinality(Nodes(heap, m_Root[t]))

\* What a call does to the stored pairs, against a map with insert-if-absent.
MapStep ==
    \A t \in Trees : last'.t = t =>
        LET m    == PairsOf(heap, m_Root[t])
            mNew == PairsOf(heap', m_Root'[t])
        IN  /\ last'.op \in {"Insert", "InsertMove"} =>
                  \A k \in Keys, v \in Values :
                      IsInsertOf(t, k, v) =>
                          mNew = IF \E p \in m : p.first = k
                                 THEN m ELSE m \cup {Pair(k, v)}
            /\ last'.op = "Erase" =>
                  \A k \in Keys :
                      Erase(t, k) => mNew = {p \in m : p.first # k}
            /\ last'.op = "Clear" => mNew = {}

\* C18: the pairs stored in the nodes are a map, and each call changes them
\* as it changes a map with insert-if-absent: Insert(k, v) adds k -> v if k
\* is absent and nothing else, Erase(k) takes k away and nothing else, in its
\* two-child case too, and Clear() empties it.
C18_MapRefinement == []IsMap /\ [][MapStep]_vars

\* After a two-child Erase the three pairs left carry both values.
C18_Witness ==
    /\ last.op = "Erase" /\ last.branch = "two"
    /\ Cardinality(PairsOf(heap, m_Root["A"])) = 3
    /\ {p.second : p \in PairsOf(heap, m_Root["A"])} = Values

\* C19: in every state, Size() is 0, which is what Empty() tests, exactly
\* when the tree has no root.
C19_EmptinessAgrees ==
    \A t \in Trees : live[t] => (Empty(t) <=> m_Root[t] = NULL)

\* The links that hold the address a: left and right members of allocated
\* nodes and m_Root of live trees.
LinksTo(a) ==
    {<<p, "left">> : p \in {n \in Allocated(heap) : heap[n].left = a}}
      \cup {<<p, "right">> : p \in {n \in Allocated(heap) : heap[n].right = a}}
      \cup {<<t, "m_Root">> : t \in {u \in Trees : live[u] /\ m_Root[u] = a}}

\* C20: with every allocation succeeding, each node that is allocated and not
\* deleted is held by exactly one link and is below the root of exactly one
\* tree, no deleted node is below a root, and no node is deleted twice.
C20_Ownership ==
    /\ \A a \in DOMAIN heap : heap[a] # DoubleFree
    /\ \A a \in Allocated(heap) :
          /\ Cardinality(LinksTo(a)) = 1
          /\ Cardinality({t \in Trees : live[t] /\ a \in Nodes(heap, m_Root[t])}) = 1
    /\ \A t \in Trees :
          IF live[t] THEN Nodes(heap, m_Root[t]) \subseteq Allocated(heap)
          ELSE m_Root[t] = NULL

\* One tree was copy-constructed from the other and every address is in use,
\* two nodes below each root.
C20_Witness ==
    /\ last.op = "CopyConstruct"
    /\ Size("A") = 2 /\ Size("B") = 2
    /\ Allocated(heap) = DOMAIN heap
    /\ Nodes(heap, m_Root["A"]) \cap Nodes(heap, m_Root["B"]) = {}
    /\ m_Root["B"] > m_Root["A"]

====
